---- MODULE Spec2Model ----
(***************************************************************************)
(* Job lifecycle of the Data Harmonizer API (python-api): streamed upload  *)
(* admission (utils/file_utils.py), the jobs table (models/job.py), job    *)
(* creation and background dispatch to the worker (endpoints/jobs.py), and *)
(* the read endpoints get_job, get_job_status, get_job_result, list_jobs.  *)
(*                                                                         *)
(* Spec is the life of the jobs made by concurrent create requests.        *)
(* ReadSpec serves the read endpoints over the contents the jobs table and *)
(* the results directory can have.                                         *)
(* InferSpec serves one create request over file names that carry the     *)
(* keywords of the type inference.  FaultSpec is Spec's lifecycle with     *)
(* failures of the environment: a raising stream read, commit or refresh,  *)
(* and a row removed from the table by hand.                               *)
(* ExtSpec serves one create request over file names built for the         *)
(* extension check.  TeardownSpec adds the close of the request's session, *)
(* TimedSpec a clock that advances, LiveSpec the fairness of the server's  *)
(* own steps.                                                              *)
(*                                                                         *)
(* File names are sequences of one-character strings, so that split('.')   *)
(* and lower() are computed as the code computes them.  Nullable columns   *)
(* hold None (the empty tuple) or Some(v) (the one-element tuple).         *)
(***************************************************************************)
EXTENDS Integers, Sequences, FiniteSets, TLC

(* ------------------------------ bounds --------------------------------- *)

\* Number of create requests, all of which may be in progress at once.
MaxRequests == 2

\* settings.MAX_UPLOAD_SIZE (config.py:38, environment-sourced), scaled down.
MAX_UPLOAD_SIZE == 1

\* The read size of save_upload_file (file_utils.py:104, 1024 * 1024), scaled down.
ChunkSize == 1

\* The last value of the clock in the specification in which time passes.
MaxClock == 2

\* settings.MAX_CONCURRENT_JOBS (config.py:35, environment-sourced, default 3),
\* scaled down below the number of requests.
MAX_CONCURRENT_JOBS == 1

Requests == 1..MaxRequests

(* ------------------------------ values --------------------------------- *)

None == <<>>
Some(v) == <<v>>

\* models/job.py: class JobStatus
QUEUED == "queued"
PROCESSING == "processing"
COMPLETED == "completed"
FAILED == "failed"
JobStatus == {QUEUED, PROCESSING, COMPLETED, FAILED}

\* config.py: ALLOWED_EXTENSIONS default ["csv", "json"]
ALLOWED_EXTENSIONS == { <<"c", "s", "v">>, <<"j", "s", "o", "n">> }

\* Client-supplied file names of the uploads: an upper-case allowed
\* extension, an allowed word without any '.', a foreign extension, and an
\* empty extension.
FileNames ==
    { <<"a", ".", "C", "S", "V">>,                 \* a.CSV
      <<"c", "s", "v">>,                           \* csv    (no dot)
      <<"a", ".", "t", "x", "t">>,                 \* a.txt
      <<"a", ".", "c", "s", "v", ".">> }           \* a.csv. (empty extension)

\* Values of the optional harmonization_type form field (here: not supplied).
FormTypes == { None }

(* ------------------------ utils/file_utils.py -------------------------- *)

UpperCase == <<"A","B","C","D","E","F","G","H","I","J","K","L","M",
               "N","O","P","Q","R","S","T","U","V","W","X","Y","Z">>
LowerCase == <<"a","b","c","d","e","f","g","h","i","j","k","l","m",
               "n","o","p","q","r","s","t","u","v","w","x","y","z">>

\* str.lower() on one character
LowerChar(c) ==
    IF \E i \in 1..26 : UpperCase[i] = c
    THEN LowerCase[CHOOSE i \in 1..26 : UpperCase[i] = c]
    ELSE c

\* str.lower()
Lower(s) == [i \in 1..Len(s) |-> LowerChar(s[i])]

\* s.split('.')[-1]: the text after the last '.', the whole of s when it has none
LastDotSegment(s) ==
    LET dots == { i \in 1..Len(s) : s[i] = "." }
    IN  IF dots = {} THEN s
        ELSE LET last == CHOOSE i \in dots : \A k \in dots : k <= i
             IN  SubSeq(s, last + 1, Len(s))

\* mutant: the extension is compared as it is written
validate_file_extensionCaseSensitive(filename) ==
    LastDotSegment(filename) \in ALLOWED_EXTENSIONS

validate_file_extension(filename) ==
    Lower(LastDotSegment(filename)) \in ALLOWED_EXTENSIONS

\* mutant: the ceiling itself is refused
validate_file_sizeStrict(file_size) == file_size < MAX_UPLOAD_SIZE

\* mutant: the ceiling taken in the wrong unit
validate_file_sizeWrongUnit(file_size) == file_size <= MAX_UPLOAD_SIZE * 1024

validate_file_size(file_size) == file_size <= MAX_UPLOAD_SIZE

get_file_type(filename) == Lower(LastDotSegment(filename))

\* f"{size_bytes:.2f} {unit}" after dividing by 1024 per unit; the value is
\* kept in hundredths (truncated), the unit as the index into
\* ['B', 'KB', 'MB', 'GB'].
RECURSIVE FormatLoop(_, _, _)
FormatLoop(hundredths, size, unit) ==
    IF size < 1024 \/ unit = 4
    THEN [hundredths |-> hundredths, unit |-> <<"B", "KB", "MB", "GB">>[unit]]
    ELSE FormatLoop(hundredths \div 1024, size \div 1024, unit + 1)

format_file_size(size_bytes) == FormatLoop(size_bytes * 100, size_bytes, 1)

\* 'needle in s'
Contains(s, needle) ==
    \E i \in 1..(Len(s) - Len(needle) + 1) :
        SubSeq(s, i, i + Len(needle) - 1) = needle

\* os.path.basename: the text after the last '/'
Basename(s) ==
    LET seps == { i \in 1..Len(s) : s[i] = "/" }
    IN  IF seps = {} THEN s
        ELSE LET last == CHOOSE i \in seps : \A k \in seps : k <= i
             IN  SubSeq(s, last + 1, Len(s))

\* mutant: the 'vital' test comes before the 'patient' test
get_harmonization_type_vitalFirst(filename) ==
    LET basename == Lower(Basename(filename))
    IN  IF Contains(basename, <<"v","i","t","a","l">>) THEN "vitals"
        ELSE IF Contains(basename, <<"p","a","t","i","e","n","t">>) THEN "patients"
        ELSE IF \/ Contains(basename, <<"m","e","d","i","c","a","t","i","o","n">>)
                \/ Contains(basename, <<"m","e","d">>) THEN "medications"
        ELSE IF \/ Contains(basename, <<"l","a","b">>)
                \/ Contains(basename, <<"t","e","s","t">>) THEN "lab_results"
        ELSE "generic"

get_harmonization_type_from_filename(filename) ==
    LET basename == Lower(Basename(filename))
    IN  IF Contains(basename, <<"p","a","t","i","e","n","t">>) THEN "patients"
        ELSE IF Contains(basename, <<"v","i","t","a","l">>) THEN "vitals"
        ELSE IF \/ Contains(basename, <<"m","e","d","i","c","a","t","i","o","n">>)
                \/ Contains(basename, <<"m","e","d">>) THEN "medications"
        ELSE IF \/ Contains(basename, <<"l","a","b">>)
                \/ Contains(basename, <<"t","e","s","t">>) THEN "lab_results"
        ELSE "generic"

(* ------------------------------- state --------------------------------- *)

VARIABLES
    pc,                \* per create request: where the handler stands
    upload,            \* per request: the UploadFile (filename, form field, bytes received)
    local,             \* per request: save_upload_file's locals (file_path, file_type, size_bytes)
    resp,              \* per request: the HTTP response sent
    background_tasks,  \* per request: BackgroundTasks queue of job ids
    dispatch,          \* per request: the process_job_async run of its background task
    dispatched,        \* per request: job ids whose dispatch run has started
    upload_dir,        \* UPLOAD_DIR: path -> bytes written
    jobs,              \* the jobs table: id -> row
    worker_inbox,      \* process requests the worker has received
    worker_queue,      \* job ids the worker has accepted and not yet reported on
    clock,             \* the value datetime.utcnow returns (it stands still in Spec)
    results_dir,       \* RESULTS_DIR: the paths of the output files that exist
    read,              \* the last read request (GET) served, with its response
    session            \* per request: the database session get_db gave it

vars == << pc, upload, local, resp, background_tasks, dispatch, dispatched,
           upload_dir, jobs, worker_inbox, worker_queue, clock, results_dir, read,
           session >>

NoUpload == [filename |-> <<>>, harmonization_type |-> None, received |-> 0, eof |-> FALSE]
NoLocal == [file_path |-> None, file_type |-> <<>>, size_bytes |-> 0, job_id |-> None]
NoResponse == [status_code |-> 0, job |-> None]
NoDispatch == [at |-> "none", job_id |-> 0, db |-> None, payload |-> None, reply |-> None,
               outcome |-> "none"]

\* No session yet: get_db has not run for the request.
NoSession == [handle |-> None, closed |-> FALSE]

\* A read request served: the endpoint, its arguments (0 or None where the
\* endpoint has none), the response sent, and whether the client had sent
\* the same request just before.
Read(op, job_id, skip, limit, status, response, repeated) ==
    [op |-> op, job_id |-> job_id, skip |-> skip, limit |-> limit, status |-> status,
     response |-> response, repeated |-> repeated]
NoRead == Read("none", 0, 0, 0, None, None, FALSE)

\* A process_job_async run that has returned: its locals are gone, how it
\* ended is kept.
Returned(job_id, outcome) ==
    [NoDispatch EXCEPT !.at = "returned", !.job_id = job_id, !.outcome = outcome]

Init ==
    /\ pc = [r \in Requests |-> "idle"]
    /\ upload = [r \in Requests |-> NoUpload]
    /\ local = [r \in Requests |-> NoLocal]
    /\ resp = [r \in Requests |-> NoResponse]
    /\ background_tasks = [r \in Requests |-> <<>>]
    /\ dispatch = [r \in Requests |-> NoDispatch]
    /\ dispatched = [r \in Requests |-> <<>>]
    /\ upload_dir = <<>>
    /\ jobs = <<>>
    /\ worker_inbox = {}
    /\ worker_queue = {}
    /\ clock = 0
    /\ results_dir = {}
    /\ read = NoRead
    /\ session = [r \in Requests |-> NoSession]

(* --------------------------- store helpers ----------------------------- *)

\* uuid.uuid4(): the k-th value drawn while serving request r; no two calls
\* return the same value.
uuid4(r, k) == 2 * (r - 1) + k

\* datetime.utcnow()
utcnow == clock

\* mutant: one session, made at import time, serves every request
SessionShared(r) == 1

\* database.py: SessionLocal() makes a new Session object at every call; the
\* call made for request r is named by r.
SessionLocal(r) == r

\* database.py: get_db yields the session it has just made (its close, after
\* the request, is the 'finally' of the generator).
get_db(r) == [handle |-> Some(SessionLocal(r)), closed |-> FALSE]

\* db.query(Job).filter(Job.id == job_id).first()
QueryJob(job_id) == IF job_id \in DOMAIN jobs THEN Some(jobs[job_id]) ELSE None

\* mutant: the status column defaults to PROCESSING
NewJobStarted(id, input_file, file_type, file_size, harmonization_type, now) ==
    [ id |-> id,
      status |-> PROCESSING,
      input_file |-> input_file,
      output_file |-> None,
      file_type |-> file_type,
      file_size |-> file_size,
      harmonization_type |-> harmonization_type,
      created_at |-> now,
      updated_at |-> now,
      completed_at |-> None,
      error_message |-> None ]

\* mutant: the output path is reserved at creation
NewJobReserved(id, input_file, file_type, file_size, harmonization_type, now) ==
    [ id |-> id,
      status |-> QUEUED,
      input_file |-> input_file,
      output_file |-> Some([dir |-> "results", uuid |-> id, ext |-> file_type]),
      file_type |-> file_type,
      file_size |-> file_size,
      harmonization_type |-> harmonization_type,
      created_at |-> now,
      updated_at |-> now,
      completed_at |-> None,
      error_message |-> None ]

\* mutant: completed_at is stamped at creation like created_at
NewJobStamped(id, input_file, file_type, file_size, harmonization_type, now) ==
    [ id |-> id,
      status |-> QUEUED,
      input_file |-> input_file,
      output_file |-> None,
      file_type |-> file_type,
      file_size |-> file_size,
      harmonization_type |-> harmonization_type,
      created_at |-> now,
      updated_at |-> now,
      completed_at |-> Some(now),
      error_message |-> None ]

\* models/job.py: Job(...) with the column defaults applied at INSERT
NewJob(id, input_file, file_type, file_size, harmonization_type, now) ==
    [ id |-> id,
      status |-> QUEUED,
      input_file |-> input_file,
      output_file |-> None,
      file_type |-> file_type,
      file_size |-> file_size,
      harmonization_type |-> harmonization_type,
      created_at |-> now,
      updated_at |-> now,
      completed_at |-> None,
      error_message |-> None ]

\* mutant: the row is added to the session and never committed
db_add_only(store, job) == store

\* db.add(job); db.commit(): the row is in the table
db_add_commit(store, job) ==
    [j \in (DOMAIN store) \cup {job.id} |-> IF j = job.id THEN job ELSE store[j]]

\* mutant: one file name, generated once, serves every upload
UploadPathFixed(u, file_type) == [dir |-> "uploads", uuid |-> 0, ext |-> file_type]

\* f"{uuid.uuid4()}.{file_type}" joined to UPLOAD_DIR
UploadPath(u, file_type) == [dir |-> "uploads", uuid |-> u, ext |-> file_type]

\* The output file of a job, in RESULTS_DIR.
ResultPath(job_id, file_type) == [dir |-> "results", uuid |-> job_id, ext |-> file_type]

\* the file at path holds n bytes (created when absent)
WriteFile(dir, path, n) ==
    [p \in (DOMAIN dir) \cup {path} |-> IF p = path THEN n ELSE dir[p]]

\* os.remove(path)
RemoveFile(dir, path) == [p \in (DOMAIN dir) \ {path} |-> dir[p]]

(* ------------------- endpoints/jobs.py: create_job --------------------- *)

\* Requests are taken in index order (their identities are interchangeable).
MayArrive(r) == pc[r] = "idle" /\ \A q \in Requests : q < r => pc[q] # "idle"

\* create_job is entered and save_upload_file runs to its first read:
\* extension check, generated file name, open(file_path, "wb").
SaveUploadOpen(r, filename, harmonization_type) ==
    /\ MayArrive(r)
    /\ upload' = [upload EXCEPT ![r] = [filename |-> filename,
                                        harmonization_type |-> harmonization_type,
                                        received |-> 0, eof |-> FALSE]]
    /\ IF ~validate_file_extension(filename)
       THEN \* raise HTTPException(400), re-raised by create_job
            /\ resp' = [resp EXCEPT ![r] = [status_code |-> 400, job |-> None]]
            /\ pc' = [pc EXCEPT ![r] = "responded"]
            /\ UNCHANGED << local, upload_dir >>
       ELSE LET file_type == get_file_type(filename)
                file_path == UploadPath(uuid4(r, 1), file_type)
            IN  /\ local' = [local EXCEPT ![r] = [file_path |-> Some(file_path),
                                                  file_type |-> file_type,
                                                  size_bytes |-> 0,
                                                  job_id |-> None]]
                /\ upload_dir' = WriteFile(upload_dir, file_path, 0)
                /\ pc' = [pc EXCEPT ![r] = "reading"]
                /\ UNCHANGED resp
    /\ session' = [session EXCEPT ![r] = get_db(r)]
    /\ UNCHANGED << background_tasks, dispatch, dispatched, jobs, worker_inbox, worker_queue, clock, results_dir, read >>

\* One turn of the read loop with a non-empty chunk of n bytes: count,
\* check the ceiling, then write.
SaveUploadRead(r, n) ==
    /\ pc[r] = "reading"
    /\ ~upload[r].eof
    /\ n \in 1..ChunkSize
    /\ LET size_bytes == local[r].size_bytes + n
           file_path == local[r].file_path[1]
       IN  /\ upload' = [upload EXCEPT ![r].received = @ + n,
                                       ![r].eof = (n < ChunkSize)]
           /\ local' = [local EXCEPT ![r].size_bytes = size_bytes]
           /\ IF ~validate_file_size(size_bytes)
              THEN \* os.remove(file_path); raise HTTPException(413)
                   /\ upload_dir' = RemoveFile(upload_dir, file_path)
                   /\ resp' = [resp EXCEPT ![r] = [status_code |-> 413, job |-> None]]
                   /\ pc' = [pc EXCEPT ![r] = "responded"]
              ELSE /\ upload_dir' = WriteFile(upload_dir, file_path, upload_dir[file_path] + n)
                   /\ UNCHANGED << resp, pc >>
    /\ UNCHANGED << background_tasks, dispatch, dispatched, jobs, worker_inbox, worker_queue, clock, results_dir, read, session >>

\* status_code of the route decorator
CreatedStatusCode == 202

\* mutant: the task is added twice
add_taskTwice(tasks, job_id) == Append(Append(tasks, job_id), job_id)

\* background_tasks.add_task(process_job_async, job.id, db)
add_task(tasks, job_id) == Append(tasks, job_id)

\* The read returns no bytes: save_upload_file returns and create_job runs on
\* without suspension: type inference, Job(...), add, commit, refresh, add_task.
CreateJob(r) ==
    /\ pc[r] = "reading"
    /\ LET file_size == format_file_size(local[r].size_bytes)
           harmonization_type ==
               IF upload[r].harmonization_type \in {None, Some("")}
               THEN get_harmonization_type_from_filename(upload[r].filename)
               ELSE upload[r].harmonization_type[1]
           id == uuid4(r, 2)
           job == NewJob(id, local[r].file_path[1], local[r].file_type, file_size,
                         harmonization_type, utcnow)
       IN  /\ jobs' = db_add_commit(jobs, job)
           /\ local' = [local EXCEPT ![r].job_id = Some(id)]
           /\ background_tasks' = [background_tasks EXCEPT ![r] = add_task(@, id)]
    /\ upload' = [upload EXCEPT ![r].eof = TRUE]
    /\ pc' = [pc EXCEPT ![r] = "responding"]
    /\ UNCHANGED << resp, dispatch, dispatched, upload_dir, worker_inbox, worker_queue, clock, results_dir, read, session >>

\* The returned job is serialized through JobResponse and sent.
SendResponse(r) ==
    /\ pc[r] = "responding"
    /\ resp' = [resp EXCEPT ![r] = [status_code |-> CreatedStatusCode,
                                    job |-> QueryJob(local[r].job_id[1])]]
    /\ pc' = [pc EXCEPT ![r] = "responded"]
    /\ upload' = [upload EXCEPT ![r] = NoUpload]
    /\ local' = [local EXCEPT ![r] = NoLocal]
    /\ UNCHANGED << background_tasks, dispatch, dispatched,
                    upload_dir, jobs, worker_inbox, worker_queue, clock, results_dir, read, session >>

(* --------------- endpoints/jobs.py: process_job_async ------------------ *)

\* mutant: the task is started as soon as it is added
BackgroundReadyEager(r) == pc[r] \in {"responding", "responded"}

\* BackgroundTasks run one after another once the response has been sent.
BackgroundReady(r) == pc[r] = "responded"

\* mutant: a job that is not found is recorded as a failed one
DispatchBeginRecordsMissing(r) ==
    /\ BackgroundReady(r)
    /\ background_tasks[r] # <<>>
    /\ dispatch[r].at \in {"none", "returned"}
    /\ LET job_id == Head(background_tasks[r])
       IN  /\ background_tasks' = [background_tasks EXCEPT ![r] = Tail(@)]
           /\ dispatched' = [dispatched EXCEPT ![r] = Append(@, job_id)]
           /\ IF QueryJob(job_id) = None
              THEN /\ dispatch' = [dispatch EXCEPT ![r] = Returned(job_id, "not_found")]
                   /\ jobs' = db_add_commit(jobs,
                                  [NewJob(job_id, UploadPath(0, <<>>), <<>>, <<>>, "generic", utcnow)
                                      EXCEPT !.status = FAILED])
              ELSE /\ jobs' = [jobs EXCEPT ![job_id].status = PROCESSING,
                                           ![job_id].updated_at = utcnow]
                   /\ dispatch' = [dispatch EXCEPT ![r] =
                          [NoDispatch EXCEPT
                              !.at = "awaiting",
                              !.job_id = job_id,
                              !.db = session[r].handle,
                              !.payload = Some([job_id |-> jobs[job_id].id,
                                                input_file |-> jobs[job_id].input_file,
                                                harmonization_type |->
                                                    jobs[job_id].harmonization_type])]]
    /\ UNCHANGED << pc, upload, local, resp, upload_dir, worker_inbox, worker_queue, clock, results_dir, read, session >>

\* mutant: the request is posted first, PROCESSING is left for the reply
DispatchBeginSendFirst(r) ==
    /\ BackgroundReady(r)
    /\ background_tasks[r] # <<>>
    /\ dispatch[r].at \in {"none", "returned"}
    /\ LET job_id == Head(background_tasks[r])
       IN  /\ background_tasks' = [background_tasks EXCEPT ![r] = Tail(@)]
           /\ dispatched' = [dispatched EXCEPT ![r] = Append(@, job_id)]
           /\ UNCHANGED jobs
           /\ IF QueryJob(job_id) = None
              THEN dispatch' = [dispatch EXCEPT ![r] = Returned(job_id, "not_found")]
              ELSE dispatch' = [dispatch EXCEPT ![r] =
                          [NoDispatch EXCEPT
                              !.at = "awaiting",
                              !.job_id = job_id,
                              !.db = session[r].handle,
                              !.payload = Some([job_id |-> jobs[job_id].id,
                                                input_file |-> jobs[job_id].input_file,
                                                harmonization_type |->
                                                    jobs[job_id].harmonization_type])]]
    /\ UNCHANGED << pc, upload, local, resp, upload_dir, worker_inbox, worker_queue, clock, results_dir, read, session >>

\* The next background task starts and runs to its first suspension, the
\* awaited post: load the job; when it is there set PROCESSING and commit;
\* build the request from the job's reloaded attributes and send it
\* (lines 34-54).
DispatchBegin(r) ==
    /\ BackgroundReady(r)
    /\ background_tasks[r] # <<>>
    /\ dispatch[r].at \in {"none", "returned"}
    /\ LET job_id == Head(background_tasks[r])
       IN  /\ background_tasks' = [background_tasks EXCEPT ![r] = Tail(@)]
           /\ dispatched' = [dispatched EXCEPT ![r] = Append(@, job_id)]
           /\ IF QueryJob(job_id) = None
              THEN /\ dispatch' = [dispatch EXCEPT ![r] = Returned(job_id, "not_found")]
                   /\ UNCHANGED jobs
              ELSE /\ jobs' = [jobs EXCEPT ![job_id].status = PROCESSING,
                                           ![job_id].updated_at = utcnow]
                   /\ dispatch' = [dispatch EXCEPT ![r] =
                          [NoDispatch EXCEPT
                              !.at = "awaiting",
                              !.job_id = job_id,
                              !.db = session[r].handle,
                              !.payload = Some([job_id |-> jobs[job_id].id,
                                                input_file |-> jobs[job_id].input_file,
                                                harmonization_type |->
                                                    jobs[job_id].harmonization_type])]]
    /\ UNCHANGED << pc, upload, local, resp, upload_dir, worker_inbox, worker_queue, clock, results_dir, read, session >>

\* Replies of the worker's /process endpoint: status code and body text.
WorkerReplies ==
    { [status_code |-> 202, text |-> "accepted"],
      [status_code |-> 500, text |-> "busy"] }

\* str(e) of the exceptions the request can raise (timeouts have an empty text).
TransportErrors == { "" }

\* The worker receives the process request and answers it; with 202 it takes
\* the job into its queue.
WorkerReceive(r, reply) ==
    /\ dispatch[r].at = "awaiting"
    /\ dispatch[r].reply = None
    /\ dispatch[r].payload[1] \notin worker_inbox
    /\ reply \in WorkerReplies
    /\ worker_inbox' = worker_inbox \cup {dispatch[r].payload[1]}
    /\ worker_queue' = IF reply.status_code = 202
                       THEN worker_queue \cup {dispatch[r].payload[1].job_id}
                       ELSE worker_queue
    /\ dispatch' = [dispatch EXCEPT ![r].reply = Some(reply)]
    /\ UNCHANGED << pc, upload, local, resp, background_tasks, dispatched, upload_dir,
                    jobs, clock, results_dir, read, session >>

\* f"Worker error: {response.text}"
WorkerErrorMessage(text) == "Worker error: " \o text

\* mutant: the message is the exception's text alone
SendErrorMessageBare(e) == e

\* f"Error sending job to worker: {str(e)}"
SendErrorMessage(e) == "Error sending job to worker: " \o e

\* mutant: the failure is committed without its message
MarkFailedSilently(job_id, error_message) ==
    jobs' = [jobs EXCEPT ![job_id].status = FAILED,
                         ![job_id].updated_at = utcnow]

\* mutant: the failure write leaves updated_at as it was (no onupdate)
MarkFailedStale(job_id, error_message) ==
    jobs' = [jobs EXCEPT ![job_id].status = FAILED,
                         ![job_id].error_message = Some(error_message)]

\* mutant: the failure write resets the harmonization type as well
MarkFailedRetyped(job_id, error_message) ==
    jobs' = [jobs EXCEPT ![job_id].status = FAILED,
                         ![job_id].error_message = Some(error_message),
                         ![job_id].harmonization_type = "unknown",
                         ![job_id].updated_at = utcnow]

\* mutant: the failure write stamps completed_at as well
MarkFailedStamped(job_id, error_message) ==
    jobs' = [jobs EXCEPT ![job_id].status = FAILED,
                         ![job_id].error_message = Some(error_message),
                         ![job_id].completed_at = Some(utcnow),
                         ![job_id].updated_at = utcnow]

\* job.status = FAILED; job.error_message = ...; db.commit(): an UPDATE of
\* the columns that were set (and updated_at, by onupdate).
MarkFailed(job_id, error_message) ==
    jobs' = [jobs EXCEPT ![job_id].status = FAILED,
                         ![job_id].error_message = Some(error_message),
                         ![job_id].updated_at = utcnow]

\* mutant: a 202 reply is taken for the end of the job
DispatchReplyCompletes(r) ==
    /\ dispatch[r].at = "awaiting"
    /\ dispatch[r].reply # None
    /\ LET response == dispatch[r].reply[1]
       IN  IF response.status_code # 202
           THEN /\ MarkFailed(dispatch[r].job_id, WorkerErrorMessage(response.text))
                /\ dispatch' = [dispatch EXCEPT ![r] = Returned(@.job_id, "worker_error")]
           ELSE /\ dispatch' = [dispatch EXCEPT ![r] = Returned(@.job_id, "accepted")]
                /\ jobs' = [jobs EXCEPT ![dispatch[r].job_id].status = COMPLETED,
                                        ![dispatch[r].job_id].completed_at = Some(utcnow),
                                        ![dispatch[r].job_id].updated_at = utcnow]
    /\ UNCHANGED << pc, upload, local, resp, background_tasks, dispatched, upload_dir,
                    worker_inbox, worker_queue, clock, results_dir, read, session >>

\* The awaited post returns the worker's reply (lines 56-65).
DispatchReply(r) ==
    /\ dispatch[r].at = "awaiting"
    /\ dispatch[r].reply # None
    /\ LET response == dispatch[r].reply[1]
       IN  IF response.status_code # 202
           THEN /\ MarkFailed(dispatch[r].job_id, WorkerErrorMessage(response.text))
                /\ dispatch' = [dispatch EXCEPT ![r] = Returned(@.job_id, "worker_error")]
           ELSE /\ dispatch' = [dispatch EXCEPT ![r] = Returned(@.job_id, "accepted")]
                /\ UNCHANGED jobs
    /\ UNCHANGED << pc, upload, local, resp, background_tasks, dispatched, upload_dir,
                    worker_inbox, worker_queue, clock, results_dir, read, session >>

\* mutant: a transport error is logged and the job is left as it is
DispatchRaiseLogged(r, e) ==
    /\ dispatch[r].at = "awaiting"
    /\ e \in TransportErrors
    /\ dispatch' = [dispatch EXCEPT ![r] = Returned(@.job_id, "exception")]
    /\ UNCHANGED << pc, upload, local, resp, background_tasks, dispatched, upload_dir, jobs,
                    worker_inbox, worker_queue, clock, results_dir, read, session >>

\* mutant: after a transport error the task is put back for another attempt
DispatchRaiseRetry(r, e) ==
    /\ dispatch[r].at = "awaiting"
    /\ e \in TransportErrors
    /\ MarkFailed(dispatch[r].job_id, SendErrorMessage(e))
    /\ dispatch' = [dispatch EXCEPT ![r] = Returned(@.job_id, "exception")]
    /\ background_tasks' = [background_tasks EXCEPT ![r] = Append(@, dispatch[r].job_id)]
    /\ UNCHANGED << pc, upload, local, resp, dispatched, upload_dir,
                    worker_inbox, worker_queue, clock, results_dir, read, session >>

\* The awaited post raises: connection refused, DNS failure, or the 30 s
\* timeout, which can also expire after the worker took the request (lines 67-72).
DispatchRaise(r, e) ==
    /\ dispatch[r].at = "awaiting"
    /\ e \in TransportErrors
    /\ MarkFailed(dispatch[r].job_id, SendErrorMessage(e))
    /\ dispatch' = [dispatch EXCEPT ![r] = Returned(@.job_id, "exception")]
    /\ UNCHANGED << pc, upload, local, resp, background_tasks, dispatched, upload_dir,
                    worker_inbox, worker_queue, clock, results_dir, read, session >>

(* ----------------------- the worker's report --------------------------- *)

\* The worker reports the end of a job it accepted through the job store's
\* update, which admits forward transitions only (from PROCESSING).
WorkerReport(job_id, status) ==
    /\ job_id \in worker_queue
    /\ status \in {COMPLETED, FAILED}
    /\ worker_queue' = worker_queue \ {job_id}
    /\ IF job_id \in DOMAIN jobs /\ jobs[job_id].status = PROCESSING
       THEN /\ jobs' = [jobs EXCEPT
                  ![job_id].status = status,
                  ![job_id].output_file =
                      IF status = COMPLETED
                      THEN Some(ResultPath(job_id, jobs[job_id].file_type))
                      ELSE @,
                  ![job_id].error_message =
                      IF status = FAILED THEN Some("Harmonization failed") ELSE @,
                  ![job_id].completed_at = Some(utcnow),
                  ![job_id].updated_at = utcnow]
            /\ results_dir' = IF status = COMPLETED
                              THEN results_dir \cup {ResultPath(job_id, jobs[job_id].file_type)}
                              ELSE results_dir
       ELSE UNCHANGED << jobs, results_dir >>   \* InvalidTransition
    /\ UNCHANGED << pc, upload, local, resp, background_tasks, dispatch, dispatched,
                    upload_dir, worker_inbox, clock, read, session >>

(* ----------------- endpoints/jobs.py: the read endpoints --------------- *)

\* raise HTTPException(status_code, detail); the detail names the job.
HTTPError(status_code, detail, job_id) ==
    [status_code |-> status_code, body |-> [detail |-> detail, job_id |-> job_id]]

\* models/schemas.py: the fields of JobResponse and of JobStatusResponse,
\* read from the row's attributes (orm_mode).
JobResponseFields ==
    { "harmonization_type", "id", "status", "file_type", "file_size", "input_file",
      "output_file", "created_at", "updated_at", "completed_at", "error_message" }
JobResponse(job) == [f \in JobResponseFields |-> job[f]]

JobStatusResponseFields ==
    { "id", "status", "created_at", "updated_at", "completed_at", "error_message" }
JobStatusResponse(job) == [f \in JobStatusResponseFields |-> job[f]]

\* mutant: the filter on the id is lost, the first row is returned
get_jobFirst(job_id) ==
    IF DOMAIN jobs = {}
    THEN HTTPError(404, "Job not found", job_id)
    ELSE [status_code |-> 200,
          body |-> JobResponse(jobs[CHOOSE j \in DOMAIN jobs : \A k \in DOMAIN jobs : j <= k])]

get_job(job_id) ==
    LET job == QueryJob(job_id)
    IN  IF job = None
        THEN HTTPError(404, "Job not found", job_id)
        ELSE [status_code |-> 200, body |-> JobResponse(job[1])]

get_job_status(job_id) ==
    LET job == QueryJob(job_id)
    IN  IF job = None
        THEN HTTPError(404, "Job not found", job_id)
        ELSE [status_code |-> 200, body |-> JobStatusResponse(job[1])]

\* os.path.exists(path) for a path in RESULTS_DIR
PathExists(path) == path \in results_dir

\* "text/csv" if job.file_type == "csv" else "application/json"
media_type(file_type) ==
    IF file_type = <<"c", "s", "v">> THEN "text/csv" ELSE "application/json"

\* FileResponse(path, filename=os.path.basename(path), media_type=...): the
\* bytes of the file at path, served under its base name.
FileResponse(path, file_type) ==
    [path |-> path,
     filename |-> [uuid |-> path.uuid, ext |-> path.ext],
     media_type |-> media_type(file_type)]

\* mutant: the output file is looked for before the status is
get_job_resultFileFirst(job_id) ==
    LET job == QueryJob(job_id)
    IN  IF job = None
        THEN HTTPError(404, "Job not found", job_id)
        ELSE IF job[1].output_file = None \/ ~PathExists(job[1].output_file[1])
        THEN HTTPError(404, "Result file not found", job_id)
        ELSE IF job[1].status # COMPLETED
        THEN HTTPError(400, "Job is not completed", job_id)
        ELSE [status_code |-> 200,
              body |-> FileResponse(job[1].output_file[1], job[1].file_type)]

get_job_result(job_id) ==
    LET job == QueryJob(job_id)
    IN  IF job = None
        THEN HTTPError(404, "Job not found", job_id)
        ELSE IF job[1].status # COMPLETED
        THEN HTTPError(400, "Job is not completed", job_id)
        ELSE IF job[1].output_file = None \/ ~PathExists(job[1].output_file[1])
        THEN HTTPError(404, "Result file not found", job_id)
        ELSE [status_code |-> 200,
              body |-> FileResponse(job[1].output_file[1], job[1].file_type)]

\* query.filter(Job.status == status) when a status is given
FilterByStatus(status) ==
    { j \in DOMAIN jobs : status = None \/ jobs[j].status = status[1] }

\* mutant: oldest first
OrderByCreatedAtAsc(ids) ==
    { o \in [1..Cardinality(ids) -> ids] :
        /\ \A i, k \in DOMAIN o : i # k => o[i] # o[k]
        /\ \A i, k \in DOMAIN o : i < k => jobs[o[i]].created_at <= jobs[o[k]].created_at }

\* The orders in which ORDER BY created_at DESC can return the rows ids: any
\* arrangement with created_at non-increasing (rows with equal created_at
\* come in an order the query does not fix).
OrderByCreatedAtDesc(ids) ==
    { o \in [1..Cardinality(ids) -> ids] :
        /\ \A i, k \in DOMAIN o : i # k => o[i] # o[k]
        /\ \A i, k \in DOMAIN o : i < k => jobs[o[i]].created_at >= jobs[o[k]].created_at }

\* .offset(skip).limit(limit)
OffsetLimit(rows, skip, limit) ==
    LET last == IF skip + limit < Len(rows) THEN skip + limit ELSE Len(rows)
    IN  SubSeq(rows, skip + 1, last)

\* The responses list_jobs can give.
list_jobs(skip, limit, status) ==
    { [status_code |-> 200,
       body |-> LET page == OffsetLimit(o, skip, limit)
                IN  [i \in DOMAIN page |-> JobResponse(jobs[page[i]])]] :
      o \in OrderByCreatedAtDesc(FilterByStatus(status)) }

\* A client sends a read request, and may send a request for a job again.
FirstRead == read.op = "none"
Repeats(op, job_id) == read.op = op /\ read.job_id = job_id

ReadFrame ==
    UNCHANGED << pc, upload, local, resp, background_tasks, dispatch, dispatched,
                 upload_dir, jobs, worker_inbox, worker_queue, clock, results_dir, session >>

\* mutant: serving the read refreshes the row's updated_at
GetJobTouching(job_id) ==
    /\ FirstRead \/ Repeats("get_job", job_id)
    /\ read' = Read("get_job", job_id, 0, 0, None, get_job(job_id),
                    Repeats("get_job", job_id))
    /\ jobs' = IF job_id \in DOMAIN jobs
               THEN [jobs EXCEPT ![job_id].updated_at = @ + 1]
               ELSE jobs
    /\ UNCHANGED << pc, upload, local, resp, background_tasks, dispatch, dispatched,
                    upload_dir, worker_inbox, worker_queue, clock, results_dir, session >>

GetJob(job_id) ==
    /\ FirstRead \/ Repeats("get_job", job_id)
    /\ read' = Read("get_job", job_id, 0, 0, None, get_job(job_id),
                    Repeats("get_job", job_id))
    /\ ReadFrame

GetJobStatus(job_id) ==
    /\ FirstRead \/ Repeats("get_job_status", job_id)
    /\ read' = Read("get_job_status", job_id, 0, 0, None, get_job_status(job_id),
                    Repeats("get_job_status", job_id))
    /\ ReadFrame

GetJobResult(job_id) ==
    /\ FirstRead \/ Repeats("get_job_result", job_id)
    /\ read' = Read("get_job_result", job_id, 0, 0, None, get_job_result(job_id),
                    Repeats("get_job_result", job_id))
    /\ ReadFrame

ListJobs(skip, limit, status) ==
    /\ FirstRead
    /\ \E response \in list_jobs(skip, limit, status) :
          read' = Read("list_jobs", 0, skip, limit, status, response, FALSE)
    /\ ReadFrame

(* --------------------------- specification ----------------------------- *)

Next ==
    \/ \E r \in Requests, f \in FileNames, h \in FormTypes : SaveUploadOpen(r, f, h)
    \/ \E r \in Requests, n \in 1..ChunkSize : SaveUploadRead(r, n)
    \/ \E r \in Requests : CreateJob(r)
    \/ \E r \in Requests : SendResponse(r)
    \/ \E r \in Requests : DispatchBegin(r)
    \/ \E r \in Requests, reply \in WorkerReplies : WorkerReceive(r, reply)
    \/ \E r \in Requests : DispatchReply(r)
    \/ \E r \in Requests, e \in TransportErrors : DispatchRaise(r, e)
    \/ \E j \in worker_queue, s \in {COMPLETED, FAILED} : WorkerReport(j, s)

Spec == Init /\ [][Next]_vars

(* ------------- the read endpoints over the stores they meet ------------ *)

\* Number of rows in the jobs table when the reads are served.
MaxJobs == 2

\* Values of created_at.
Times == 0..1

\* Values of the environment-sourced setting ALLOWED_EXTENSIONS: the default,
\* and a deployment that also admits xml.
ExtensionSettings ==
    { ALLOWED_EXTENSIONS, ALLOWED_EXTENSIONS \cup { <<"x", "m", "l">> } }

\* The file types admission records under a setting: get_file_type of the
\* names validate_file_extension lets pass.
AdmittedFileTypes(allowed) == { e \in allowed : Lower(e) = e }

\* A row of the jobs table as the API created it (NewJob) and as the
\* dispatcher and the worker, which writes the table on its own, left it.
StoredRow(id, status, has_output, file_type, created_at) ==
    [ NewJob(id, UploadPath(id, file_type), file_type, format_file_size(1),
             "generic", created_at)
      EXCEPT !.status = status,
             !.output_file = IF has_output THEN Some(ResultPath(id, file_type)) ELSE None,
             !.completed_at = IF status = COMPLETED \/ has_output
                              THEN Some(created_at) ELSE None,
             !.error_message = IF status = FAILED
                               THEN Some("Harmonization failed") ELSE None ]

\* The file types admission records under some setting.
FileTypes == UNION { AdmittedFileTypes(allowed) : allowed \in ExtensionSettings }

\* The rows drawn: every status; an output_file with COMPLETED and FAILED
\* (and COMPLETED without one); file types other than csv with the rows a
\* result can be downloaded from.
RowChoices ==
    { c \in JobStatus \X BOOLEAN \X FileTypes \X Times :
        /\ c[2] => c[1] \in {COMPLETED, FAILED}
        /\ c[3] # <<"c", "s", "v">> => (c[1] = COMPLETED /\ c[2] /\ c[4] = 0) }

Stores ==
    UNION { { [id \in 1..n |-> StoredRow(id, c[id][1], c[id][2], c[id][3], c[id][4])] :
                c \in [1..n -> RowChoices] } : n \in 0..MaxJobs }

\* The output files the rows of a store name.
OutputFiles(store) ==
    { store[id].output_file[1] : id \in { i \in DOMAIN store : store[i].output_file # None } }

\* The contents of RESULTS_DIR drawn: every output file is there, or all but
\* one are.
StoredOutputs(store) ==
    { OutputFiles(store) } \cup { OutputFiles(store) \ {p} : p \in OutputFiles(store) }

ReadInit ==
    /\ pc = [r \in Requests |-> "idle"]
    /\ upload = [r \in Requests |-> NoUpload]
    /\ local = [r \in Requests |-> NoLocal]
    /\ resp = [r \in Requests |-> NoResponse]
    /\ background_tasks = [r \in Requests |-> <<>>]
    /\ dispatch = [r \in Requests |-> NoDispatch]
    /\ dispatched = [r \in Requests |-> <<>>]
    /\ upload_dir = <<>>
    /\ worker_inbox = {}
    /\ worker_queue = {}
    /\ clock = 1
    /\ jobs \in Stores
    /\ results_dir \in StoredOutputs(jobs)
    /\ read = NoRead
    /\ session = [r \in Requests |-> NoSession]

\* Arguments of the read requests: the ids of the rows and one id of no row;
\* skip and limit inside and beyond the table; no status filter or any status.
JobIdArgs == 1..(MaxJobs + 1)
SkipArgs == 0..1
LimitArgs == {0, 1, 100}
StatusArgs == {None} \cup { Some(st) : st \in JobStatus }

ReadNext ==
    \/ \E job_id \in JobIdArgs : GetJob(job_id)
    \/ \E job_id \in JobIdArgs : GetJobStatus(job_id)
    \/ \E job_id \in JobIdArgs : GetJobResult(job_id)
    \/ \E skip \in SkipArgs, limit \in LimitArgs, status \in StatusArgs :
          ListJobs(skip, limit, status)

ReadSpec == ReadInit /\ [][ReadNext]_vars

(* ----------------------------- properties ------------------------------ *)

JobIds == DOMAIN jobs

Terminal(status) == status \in {COMPLETED, FAILED}

\* The job a create request has made, if any: known to the handler until the
\* response is sent, and to the caller from the response body.
JobOf(r) ==
    IF local[r].job_id # None THEN local[r].job_id
    ELSE IF resp[r].job # None THEN Some(resp[r].job[1].id)
    ELSE None

\* How often job j stands in the background queue of request r or has been
\* started from it.
Occurrences(seq, j) == Cardinality({ i \in 1..Len(seq) : seq[i] = j })
DispatchCount(r, j) == Occurrences(background_tasks[r], j) + Occurrences(dispatched[r], j)

\* The extension of a file name in the usual sense: the text after the last
\* '.', and none when the name has no '.'.
HasAllowedExtension(filename) ==
    /\ \E i \in 1..Len(filename) : filename[i] = "."
    /\ \E ext \in ALLOWED_EXTENSIONS : Lower(LastDotSegment(filename)) = Lower(ext)

\* C1: every status change of a job is QUEUED -> PROCESSING, PROCESSING ->
\* COMPLETED or PROCESSING -> FAILED, and a job enters the store as QUEUED,
\* so the statuses seen are a prefix of QUEUED, PROCESSING, (COMPLETED | FAILED).
C1_StatusSequence ==
    [][ \A j \in DOMAIN jobs' :
          IF j \in DOMAIN jobs
          THEN \/ jobs'[j].status = jobs[j].status
               \/ << jobs[j].status, jobs'[j].status >> \in
                     { <<QUEUED, PROCESSING>>, <<PROCESSING, COMPLETED>>,
                       <<PROCESSING, FAILED>> }
          ELSE jobs'[j].status = QUEUED ]_vars

\* C2: a job whose status is COMPLETED or FAILED is changed by no later step.
C2_TerminalFrozen ==
    [][ \A j \in DOMAIN jobs : Terminal(jobs[j].status) => jobs'[j] = jobs[j] ]_vars

\* C3: an upload that passed admission has exactly one job record, created
\* QUEUED with output_file, error_message and completed_at unset.
C3_OneQueuedJobPerUpload ==
    \A r \in Requests :
        /\ pc[r] = "responding" =>
              /\ local[r].job_id # None
              /\ QueryJob(local[r].job_id[1]) # None
              /\ LET job == jobs[local[r].job_id[1]]
                 IN  /\ job.status = QUEUED
                     /\ job.output_file = None
                     /\ job.error_message = None
                     /\ job.completed_at = None
                     /\ job.input_file = local[r].file_path[1]
              /\ Cardinality({ j \in JobIds : jobs[j].input_file = local[r].file_path[1] }) = 1
        /\ resp[r].status_code = CreatedStatusCode =>
              /\ resp[r].job # None
              /\ resp[r].job[1].status = QUEUED
              /\ resp[r].job[1].output_file = None
              /\ resp[r].job[1].error_message = None
              /\ resp[r].job[1].completed_at = None
              /\ Cardinality({ j \in JobIds : jobs[j].input_file = resp[r].job[1].input_file }) = 1

C3_Witness ==
    /\ \A r \in Requests : resp[r].status_code = CreatedStatusCode
    /\ Cardinality(JobIds) = MaxRequests
    /\ \E j \in JobIds : jobs[j].status = FAILED

\* C4: once the bytes received of an upload exceed MAX_UPLOAD_SIZE the request
\* has failed with 413, there is no job for it, no dispatch is queued or
\* started, and its file is gone from the upload directory.
C4_OversizedRejected ==
    \A r \in Requests :
        upload[r].received > MAX_UPLOAD_SIZE =>
            /\ resp[r].status_code = 413
            /\ pc[r] = "responded"
            /\ JobOf(r) = None
            /\ \A j \in JobIds : Some(jobs[j].input_file) # local[r].file_path
            /\ background_tasks[r] = <<>>
            /\ dispatched[r] = <<>>
            /\ dispatch[r] = NoDispatch
            /\ local[r].file_path # None
            /\ local[r].file_path[1] \notin DOMAIN upload_dir

C4_Witness ==
    \E r \in Requests :
        /\ upload[r].received > MAX_UPLOAD_SIZE
        /\ resp[r].status_code = 413
        /\ \E q \in Requests : q # r /\ JobOf(q) # None

\* C5: an upload whose file name has no extension in the allowed set
\* (compared case-insensitively) is answered 400 with nothing written to the
\* upload directory and no job record made.
C5_BadExtensionRejected ==
    \A r \in Requests :
        (upload[r].filename # <<>> /\ ~HasAllowedExtension(upload[r].filename)) =>
            /\ resp[r].status_code = 400
            /\ local[r].file_path = None
            /\ JobOf(r) = None

\* C6: every job stands exactly once in the background queue or the started
\* dispatches of the request that made it and never in another request's,
\* and no two running dispatches work on the same job.
C6_OneDispatchPerJob ==
    /\ \A j \in JobIds : \A r \in Requests :
          DispatchCount(r, j) = IF JobOf(r) = Some(j) THEN 1 ELSE 0
    /\ \A j \in JobIds : Cardinality({ r \in Requests : JobOf(r) = Some(j) }) = 1
    /\ \A r, q \in Requests :
          (r # q /\ dispatch[r].at = "awaiting" /\ dispatch[q].at = "awaiting")
              => dispatch[r].job_id # dispatch[q].job_id

C6_Witness ==
    \E r, q \in Requests :
        /\ r # q
        /\ dispatch[r].at = "awaiting"
        /\ dispatch[q].at = "awaiting"

\* C7: a dispatch that ended on a non-202 reply or on a raised request has
\* left its job FAILED with a non-empty error_message.
C7_DispatchFailurePersisted ==
    \A r \in Requests :
        (dispatch[r].at = "returned" /\ dispatch[r].outcome \in {"worker_error", "exception"}) =>
            /\ dispatch[r].job_id \in JobIds
            /\ jobs[dispatch[r].job_id].status = FAILED
            /\ jobs[dispatch[r].job_id].error_message # None
            /\ Len(jobs[dispatch[r].job_id].error_message[1]) > 0

C7_Witness ==
    /\ \E r \in Requests : dispatch[r].at = "returned" /\ dispatch[r].outcome = "exception"
    /\ \E r \in Requests : dispatch[r].at = "returned" /\ dispatch[r].outcome = "worker_error"

C9_Created201 ==
    \A r \in Requests :
        (pc[r] = "responded" /\ resp[r].job # None) => resp[r].status_code = 201

\* C10: a job has an error_message exactly when its status is FAILED.
C10_ErrorMessageIffFailed ==
    \A j \in JobIds : (jobs[j].error_message # None) <=> (jobs[j].status = FAILED)

C10_Witness ==
    \E j \in JobIds :
        /\ jobs[j].status = FAILED
        /\ jobs[j].error_message # None
        /\ jobs[j].output_file # None

\* C11: a job has an output_file exactly when its status is COMPLETED, also
\* after a dispatcher failure write that follows the worker's completion.
C11_OutputIffCompleted ==
    \A j \in JobIds : (jobs[j].output_file # None) <=> (jobs[j].status = COMPLETED)

\* C12: completed_at is unset while a job is QUEUED or PROCESSING, set in
\* every terminal state (COMPLETED or FAILED), and once set never changes.
C12_CompletedAtOnTerminal ==
    [][ \A j \in DOMAIN jobs' :
          /\ (jobs'[j].completed_at # None) <=> Terminal(jobs'[j].status)
          /\ (j \in DOMAIN jobs /\ jobs[j].completed_at # None)
                => jobs'[j].completed_at = jobs[j].completed_at ]_vars

\* C12 as amended: completed_at is unset while a job is QUEUED or PROCESSING
\* and set whenever it is COMPLETED; it becomes set only in the step in which
\* the worker reports the job's end, so the dispatcher's failure write
\* leaves it as it was; once set it never changes.
C12_CompletedAtOnReport ==
    /\ [](\A j \in JobIds :
            /\ jobs[j].status \in {QUEUED, PROCESSING} => jobs[j].completed_at = None
            /\ jobs[j].status = COMPLETED => jobs[j].completed_at # None)
    /\ [][ \A j \in DOMAIN jobs' :
            IF j \in DOMAIN jobs
            THEN jobs'[j].completed_at # jobs[j].completed_at
                    => /\ jobs[j].completed_at = None
                       /\ jobs[j].status = PROCESSING
                       /\ Terminal(jobs'[j].status)
                       /\ j \in worker_queue /\ j \notin worker_queue'
            ELSE jobs'[j].completed_at = None ]_vars

C12_Witness ==
    \E j, k \in JobIds :
        /\ jobs[j].status = FAILED /\ jobs[j].completed_at = None
        /\ jobs[k].status = FAILED /\ jobs[k].completed_at # None
        /\ jobs[k].output_file # None

\* The process requests of job j that reached the worker.
ReachedWorker(j) == \E p \in worker_inbox : p.job_id = j

\* C13: when the request to the worker raises without the worker having
\* been reached, the job goes from PROCESSING (entered from QUEUED only) to
\* FAILED with a non-empty error_message, and its completed_at stays unset
\* from then on.
C13_UnreachableWorker ==
    /\ [](\A r \in Requests :
            (dispatch[r].outcome = "exception" /\ ~ReachedWorker(dispatch[r].job_id)) =>
                LET job == jobs[dispatch[r].job_id]
                IN  /\ job.status = FAILED
                    /\ job.error_message # None
                    /\ Len(job.error_message[1]) > 0
                    /\ job.completed_at = None)
    /\ [][ \A r \in Requests :
            (dispatch'[r].outcome = "exception" /\ dispatch[r].outcome # "exception"
                /\ ~ReachedWorker(dispatch[r].job_id)) =>
                /\ jobs[dispatch[r].job_id].status = PROCESSING
                /\ jobs'[dispatch[r].job_id].status = FAILED ]_vars
    /\ [][ \A j \in JobIds :
            (jobs'[j].status = PROCESSING /\ jobs[j].status # PROCESSING)
                => jobs[j].status = QUEUED ]_vars

C13_Witness ==
    \E r \in Requests :
        /\ dispatch[r].outcome = "exception"
        /\ ~ReachedWorker(dispatch[r].job_id)
        /\ jobs[dispatch[r].job_id].status = FAILED
        /\ jobs[dispatch[r].job_id].completed_at = None

\* C14: get_job_result answers in this order: no such job, 404; a job that
\* is not COMPLETED, 400, whether or not its output file exists; a COMPLETED
\* job with output_file unset or its file missing from storage, 404;
\* otherwise 200 with the file.
C14_ResultDecisionOrder ==
    read.op = "get_job_result" =>
        LET j == read.job_id
            r == read.response
        IN  IF j \notin JobIds THEN r.status_code = 404
            ELSE IF jobs[j].status # COMPLETED THEN r.status_code = 400
            ELSE IF jobs[j].output_file = None THEN r.status_code = 404
            ELSE IF jobs[j].output_file[1] \notin results_dir THEN r.status_code = 404
            ELSE r.status_code = 200 /\ r.body.path = jobs[j].output_file[1]

C14_Witness ==
    /\ read.op = "get_job_result"
    /\ read.job_id \in JobIds
    /\ jobs[read.job_id].status = FAILED
    /\ jobs[read.job_id].output_file # None
    /\ jobs[read.job_id].output_file[1] \in results_dir
    /\ read.response.status_code = 400

\* The media type registered for a file type.
MediaTypeOf(file_type) ==
    IF file_type = <<"c", "s", "v">> THEN "text/csv"
    ELSE IF file_type = <<"j", "s", "o", "n">> THEN "application/json"
    ELSE IF file_type = <<"x", "m", "l">> THEN "application/xml"
    ELSE "application/octet-stream"

\* C15: a result served for a COMPLETED job is that job's own output file,
\* with the content type of the job's file_type, for every file type that
\* admission records under the configured allowed extensions.
C15_ResultOfJob ==
    (read.op = "get_job_result" /\ read.response.status_code = 200) =>
        /\ read.response.body.path = jobs[read.job_id].output_file[1]
        /\ read.response.body.path.uuid = read.job_id
        /\ read.response.body.media_type = MediaTypeOf(jobs[read.job_id].file_type)

Max(a, b) == IF a >= b THEN a ELSE b
Min(a, b) == IF a <= b THEN a ELSE b

\* C16: list_jobs returns a page of the jobs with the given status (of all
\* jobs when none is given): full records, no job twice, created_at
\* non-increasing, exactly skip matching jobs before the page (none of them
\* older than the page's first) and the rest after it (none newer than its
\* last), and min(limit, matching - skip) entries; nothing from an empty store.
C16_ListPage ==
    read.op = "list_jobs" =>
        LET body == read.response.body
            matching == { j \in JobIds : read.status = None \/ jobs[j].status = read.status[1] }
            page == { body[i].id : i \in DOMAIN body }
            rest == matching \ page
        IN  /\ read.response.status_code = 200
            /\ Len(body) = Max(0, Min(read.limit, Cardinality(matching) - read.skip))
            /\ page \subseteq matching
            /\ Cardinality(page) = Len(body)
            /\ \A i \in DOMAIN body : body[i] = jobs[body[i].id]
            /\ \A i, k \in DOMAIN body : i < k => body[i].created_at >= body[k].created_at
            /\ Len(body) > 0 =>
                  \E before \in SUBSET rest :
                      /\ Cardinality(before) = read.skip
                      /\ \A j \in before : jobs[j].created_at >= body[1].created_at
                      /\ \A j \in rest \ before :
                            jobs[j].created_at <= body[Len(body)].created_at
            /\ jobs = <<>> => body = <<>>

C16_Witness ==
    /\ read.op = "list_jobs"
    /\ read.skip = 1 /\ read.limit = 1
    /\ read.status = Some(COMPLETED)
    /\ Len(read.response.body) = 1
    /\ \E j \in JobIds :
          /\ jobs[j].status = COMPLETED
          /\ jobs[j].created_at > read.response.body[1].created_at

\* C17: get_job answers 200 with every column of the row of that id, and
\* get_job_status 200 with id, status, created_at, updated_at, completed_at
\* and error_message of that row; both answer 404 when there is no such row.
C17_GetJobAndStatus ==
    /\ read.op = "get_job" =>
          IF read.job_id \in JobIds
          THEN /\ read.response.status_code = 200
               /\ read.response.body = jobs[read.job_id]
          ELSE read.response.status_code = 404
    /\ read.op = "get_job_status" =>
          IF read.job_id \in JobIds
          THEN /\ read.response.status_code = 200
               /\ DOMAIN read.response.body =
                     { "id", "status", "created_at", "updated_at", "completed_at",
                       "error_message" }
               /\ \A f \in DOMAIN read.response.body :
                     read.response.body[f] = jobs[read.job_id][f]
          ELSE read.response.status_code = 404

C17_Witness ==
    /\ read.op = "get_job"
    /\ read.job_id \in JobIds
    /\ read.response.status_code = 200
    /\ read.response.body.status = FAILED
    /\ read.response.body.error_message # None
    /\ \E j \in JobIds : j # read.job_id

\* C18: serving get_job, get_job_status, get_job_result or list_jobs changes
\* no job record and nothing in the upload directory, and a GET for a job
\* sent again gets the response it got before.
C18_ReadsChangeNothing ==
    [][ /\ read' # read => (jobs' = jobs /\ upload_dir' = upload_dir)
        /\ (read'.repeated /\ jobs' = jobs /\ results_dir' = results_dir)
              => read'.response = read.response ]_vars

C18_Witness ==
    /\ read.op = "get_job"
    /\ read.repeated
    /\ read.response.status_code = 200

\* The ids of the records a list_jobs response holds.
ListedIds(response) == { response.body[i].id : i \in DOMAIN response.body }

\* C19: once a create request has answered with its job, get_job and
\* get_job_status find that job and list_jobs lists it, in this and every
\* later state (no row ever leaves the table); and a read sees the status
\* the dispatcher committed last or a later one: never QUEUED once PROCESSING
\* is committed, FAILED once the dispatcher committed FAILED.
C19_CommittedIsVisible ==
    /\ [](/\ \A r \in Requests :
                /\ resp[r].status_code = CreatedStatusCode =>
                      /\ resp[r].job # None
                      /\ get_job(resp[r].job[1].id).status_code = 200
                      /\ get_job(resp[r].job[1].id).body.id = resp[r].job[1].id
                      /\ get_job_status(resp[r].job[1].id).status_code = 200
                /\ dispatch[r].at = "awaiting" =>
                      /\ get_job(dispatch[r].job_id).status_code = 200
                      /\ get_job(dispatch[r].job_id).body.status # QUEUED
                      /\ get_job_status(dispatch[r].job_id).body.status # QUEUED
                /\ dispatch[r].outcome \in {"worker_error", "exception"} =>
                      /\ get_job(dispatch[r].job_id).body.status = FAILED
                      /\ get_job_status(dispatch[r].job_id).body.status = FAILED
          /\ \A response \in list_jobs(0, 100, None) :
                \A r \in Requests :
                    /\ resp[r].job # None => resp[r].job[1].id \in ListedIds(response)
                    /\ \A i \in DOMAIN response.body :
                          response.body[i].id = dispatch[r].job_id =>
                              /\ dispatch[r].at = "awaiting"
                                    => response.body[i].status # QUEUED
                              /\ dispatch[r].outcome \in {"worker_error", "exception"}
                                    => response.body[i].status = FAILED)
    /\ [][ \A j \in DOMAIN jobs : j \in DOMAIN jobs' ]_vars

C19_Witness ==
    \E r, q \in Requests :
        /\ r # q
        /\ resp[r].status_code = CreatedStatusCode
        /\ dispatch[r].outcome = "exception"
        /\ get_job(resp[r].job[1].id).body.status = FAILED
        /\ resp[q].status_code = CreatedStatusCode
        /\ dispatch[q].at = "awaiting"
        /\ get_job(resp[q].job[1].id).body.status = PROCESSING

\* The stored files of the uploads in progress and of the jobs made.
PathsInUse(r) ==
    IF local[r].file_path # None /\ pc[r] \in {"reading", "responding"}
    THEN {local[r].file_path[1]}
    ELSE IF resp[r].job # None THEN {resp[r].job[1].input_file}
    ELSE {}

\* C20: concurrent accepted uploads, also of equally named files, get jobs
\* with pairwise distinct ids and pairwise distinct stored file paths; a
\* stored file is named by the name generated for its request and the
\* validated extension of the client's file name; and no step of one upload
\* changes or removes the stored file of another upload or of a job.
C20_DistinctIdsAndPaths ==
    /\ [](/\ \A r, q \in Requests :
               r # q => /\ (JobOf(r) # None => JobOf(r) # JobOf(q))
                        /\ PathsInUse(r) \cap PathsInUse(q) = {}
          /\ \A j, k \in JobIds : j # k => /\ jobs[j].id # jobs[k].id
                                           /\ jobs[j].input_file # jobs[k].input_file
          /\ \A j \in JobIds : jobs[j].id = j /\ jobs[j].input_file \in DOMAIN upload_dir
          /\ \A r \in Requests :
               (pc[r] \in {"reading", "responding"}) =>
                   /\ local[r].file_path[1].uuid = uuid4(r, 1)
                   /\ local[r].file_path[1].ext = Lower(LastDotSegment(upload[r].filename))
                   /\ local[r].file_path[1].ext \in ALLOWED_EXTENSIONS)
    /\ [][ \A p \in DOMAIN upload_dir :
             (p \notin DOMAIN upload_dir' \/ upload_dir'[p] # upload_dir[p]) =>
                 /\ \A j \in JobIds : jobs[j].input_file # p
                 /\ \E r \in Requests :
                       /\ pc[r] = "reading"
                       /\ local[r].file_path = Some(p)
                       /\ upload'[r] # upload[r]
                       /\ \A q \in Requests : q # r => p \notin PathsInUse(q) ]_vars

C20_Witness ==
    \E r, q \in Requests :
        /\ r # q
        /\ pc[r] = "responding" /\ pc[q] = "responding"
        /\ upload[r].filename = upload[q].filename
        /\ upload_dir[local[r].file_path[1]] = upload_dir[local[q].file_path[1]]
        /\ JobOf(r) # JobOf(q)

(* ------------------------- sessions (C23) ------------------------------ *)

\* The units of work in progress: a create handler from its entry to its
\* response (it is suspended at an awaited read, or about to answer), and a
\* dispatch run suspended at the awaited post; each with the session it works on.
HandlerUnits ==
    { <<"request", r, session[r].handle>> : r \in { q \in Requests : pc[q] \in {"reading", "responding"} } }
DispatchUnits ==
    { <<"dispatch", r, dispatch[r].db>> : r \in { q \in Requests : dispatch[q].at = "awaiting" } }
UnitsOfWork == HandlerUnits \cup DispatchUnits

\* C23: every unit of work in progress has a session, and no two units in
\* progress at the same time (two requests, a request and the dispatch of
\* another request, two dispatches) work on the same session; a dispatch
\* works on the session of the request that created its job.
C23_SessionPerUnit ==
    /\ \A u \in UnitsOfWork : u[3] # None
    /\ \A u, v \in UnitsOfWork : u # v => u[3] # v[3]
    /\ \A r \in Requests :
         dispatch[r].at = "awaiting" => dispatch[r].db = session[r].handle

C23_Witness ==
    \E r, q \in Requests :
        /\ r # q
        /\ dispatch[r].at = "awaiting"
        /\ pc[q] = "reading"
        /\ <<"dispatch", r, dispatch[r].db>> \in UnitsOfWork
        /\ <<"request", q, session[q].handle>> \in UnitsOfWork

(* ------------- harmonization type of a created job (C21) --------------- *)

\* File names of uploads for the type inference: each keyword alone, two
\* keywords in one name, a keyword inside another word, upper case, a
\* keyword in the directory part only, and no keyword.
PatientsCsv == <<"p","a","t","i","e","n","t","s",".","c","s","v">>
InferFileNames ==
    { PatientsCsv,
      <<"P","a","t","i","e","n","t","_","V","i","t","a","l","s",".","C","S","V">>,
      <<"v","i","t","a","l","_","m","e","d",".","c","s","v">>,
      <<"m","e","d","i","c","a","t","i","o","n",".","c","s","v">>,
      <<"m","e","d","s","_","l","a","b",".","j","s","o","n">>,
      <<"l","a","b",".","c","s","v">>,
      <<"l","a","t","e","s","t",".","c","s","v">>,
      <<"v","i","t","a","l","/","d","a","t","a",".","c","s","v">>,
      <<"d","a","t","a",".","j","s","o","n">> }

\* Values of the harmonization_type form field: absent, empty, a known type
\* and a type the inference never yields.
InferFormTypes == { None, Some(""), Some("vitals"), Some("custom") }

\* One create request served from its arrival to its response.
InferNext ==
    \/ \E f \in InferFileNames, h \in InferFormTypes : SaveUploadOpen(1, f, h)
    \/ \E n \in 1..ChunkSize : SaveUploadRead(1, n)
    \/ CreateJob(1)
    \/ SendResponse(1)

InferSpec == Init /\ [][InferNext]_vars

\* The form field carries a type (a field left empty carries none).
Supplied(h) == h # None /\ h # Some("")

\* C21: the job a request has created holds the supplied harmonization_type
\* unchanged, whatever the file name; without a supplied type it holds the
\* type of the first keyword, in the order patient, vital, medication or med,
\* lab or test, found in the lowercased base name of the file, and generic
\* when none is found; patients.csv gives patients.
C21_TypeInferred ==
    \A r \in Requests :
        pc[r] = "responding" =>
            LET h == upload[r].harmonization_type
                t == jobs[local[r].job_id[1]].harmonization_type
                b == Lower(Basename(upload[r].filename))
                patient == Contains(b, <<"p","a","t","i","e","n","t">>)
                vital == Contains(b, <<"v","i","t","a","l">>)
                med == \/ Contains(b, <<"m","e","d","i","c","a","t","i","o","n">>)
                       \/ Contains(b, <<"m","e","d">>)
                lab == \/ Contains(b, <<"l","a","b">>)
                       \/ Contains(b, <<"t","e","s","t">>)
            IN  /\ Supplied(h) => t = h[1]
                /\ ~Supplied(h) =>
                     /\ patient => t = "patients"
                     /\ (~patient /\ vital) => t = "vitals"
                     /\ (~patient /\ ~vital /\ med) => t = "medications"
                     /\ (~patient /\ ~vital /\ ~med /\ lab) => t = "lab_results"
                     /\ (~patient /\ ~vital /\ ~med /\ ~lab) => t = "generic"
                     /\ upload[r].filename = PatientsCsv => t = "patients"

C21_Witness ==
    \E r \in Requests :
        /\ pc[r] = "responding"
        /\ upload[r].harmonization_type = None
        /\ Contains(Lower(upload[r].filename), <<"p","a","t","i","e","n","t">>)
        /\ Contains(Lower(upload[r].filename), <<"v","i","t","a","l">>)
        /\ jobs[local[r].job_id[1]].harmonization_type = "patients"

(* ----------------------- dispatch ceiling (C22) ------------------------ *)

\* The dispatches in flight: jobs handed to the worker (their dispatch run
\* has sent, or is sending, the process request) that are not yet terminal.
InFlight ==
    { j \in JobIds :
        /\ \E r \in Requests : Occurrences(dispatched[r], j) > 0
        /\ ~Terminal(jobs[j].status) }

\* C22: never more than MAX_CONCURRENT_JOBS dispatches are in flight.
C22_DispatchCeiling == Cardinality(InFlight) <= MAX_CONCURRENT_JOBS

(* ----------------------- creation values (C24) ------------------------- *)

\* The columns create_job fills in (jobs.py:111-116) or the INSERT defaults
\* (id, created_at) and no later statement assigns.
CreationFields ==
    { "id", "input_file", "file_type", "file_size", "harmonization_type", "created_at" }

\* C24: no step removes a job or changes its id, input_file, file_type,
\* file_size, harmonization_type or created_at: they keep the values of the
\* creation through dispatch, its failure paths and the worker's report.
C24_CreationValuesKept ==
    [][ \A j \in DOMAIN jobs :
          /\ j \in DOMAIN jobs'
          /\ \A f \in CreationFields : jobs'[j][f] = jobs[j][f] ]_vars

C24_Witness ==
    \E j, k \in JobIds :
        /\ jobs[j].status = FAILED
        /\ jobs[j].error_message = Some(SendErrorMessage(""))
        /\ jobs[k].status = COMPLETED
        /\ jobs[j].input_file \in DOMAIN upload_dir
        /\ jobs[k].input_file \in DOMAIN upload_dir

(* -------------------- the process request (C25-C27) -------------------- *)

\* The dispatch run of request r has posted its request and the worker has
\* not yet received it.
RequestInFlight(r) == dispatch[r].at = "awaiting" /\ dispatch[r].reply = None

\* C25: while a process request for job j is on its way to the worker the
\* store shows j PROCESSING, and a job whose request the worker has received
\* is never QUEUED: PROCESSING is committed before the request is sent.
C25_ProcessingBeforeSend ==
    /\ \A r \in Requests :
         RequestInFlight(r) =>
             /\ dispatch[r].payload # None
             /\ dispatch[r].payload[1].job_id = dispatch[r].job_id
             /\ jobs[dispatch[r].job_id].status = PROCESSING
    /\ \A p \in worker_inbox :
         p.job_id \in JobIds /\ jobs[p.job_id].status # QUEUED

C25_Witness ==
    \E r \in Requests :
        /\ dispatch[r].at = "awaiting"
        /\ dispatch[r].reply # None
        /\ dispatch[r].payload[1] \in worker_inbox
        /\ jobs[dispatch[r].job_id].status = PROCESSING

\* The dispatch runs started for job j, over all requests.
DispatchRuns(j) ==
    UNION { { <<r, i>> : i \in { k \in 1..Len(dispatched[r]) : dispatched[r][k] = j } } :
            r \in Requests }

\* C26: at most one dispatch run is started for a job and the worker
\* receives at most one process request for it; a run that ended with a
\* failed reply or a transport error leaves no task behind for the job.
C26_OneProcessRequest ==
    /\ \A r \in Requests : Len(dispatched[r]) <= 1
    /\ \A j \in JobIds :
         /\ Cardinality(DispatchRuns(j)) <= 1
         /\ Cardinality({ p \in worker_inbox : p.job_id = j }) <= 1
    /\ \A r \in Requests :
         dispatch[r].outcome \in {"worker_error", "exception"} =>
             /\ dispatch[r].at = "returned"
             /\ background_tasks[r] = <<>>
             /\ jobs[dispatch[r].job_id].status = FAILED

C26_Witness ==
    \E r, q \in Requests :
        /\ dispatch[r].outcome = "worker_error"
        /\ dispatch[q].outcome = "exception"
        /\ Cardinality(DispatchRuns(dispatch[r].job_id)) = 1
        /\ Cardinality(DispatchRuns(dispatch[q].job_id)) = 1

\* C27: the step that takes a 202 reply writes nothing to the store; while
\* the worker has not reported, an accepted job is PROCESSING with
\* error_message, output_file and completed_at unset, and an accepted job
\* that is terminal has been reported by the worker.
C27_AcceptedLeftProcessing ==
    /\ [](\A r \in Requests :
            dispatch[r].outcome = "accepted" =>
                LET j == dispatch[r].job_id
                IN  IF j \in worker_queue
                    THEN /\ jobs[j].status = PROCESSING
                         /\ jobs[j].error_message = None
                         /\ jobs[j].output_file = None
                         /\ jobs[j].completed_at = None
                    ELSE /\ Terminal(jobs[j].status)
                         /\ jobs[j].completed_at # None)
    /\ [][ \A r \in Requests :
             (dispatch[r].at = "awaiting" /\ dispatch'[r].outcome = "accepted") =>
                 jobs' = jobs ]_vars

C27_Witness ==
    \E r \in Requests :
        /\ dispatch[r].outcome = "accepted"
        /\ dispatch[r].job_id \in worker_queue
        /\ jobs[dispatch[r].job_id].status = PROCESSING

(* ------------------------ upload ceiling (C29) ------------------------- *)

\* C29: a stored upload never holds more than MAX_UPLOAD_SIZE bytes; an
\* upload in progress or accepted has read at most MAX_UPLOAD_SIZE bytes and
\* written all of them; 413 is answered exactly when the bytes read exceed
\* MAX_UPLOAD_SIZE, after which the request reads no further chunk, so that
\* never more than MAX_UPLOAD_SIZE plus one chunk is read.
C29_CeilingBeforeWrite ==
    /\ \A p \in DOMAIN upload_dir : upload_dir[p] <= MAX_UPLOAD_SIZE
    /\ \A r \in Requests :
         /\ upload[r].received <= MAX_UPLOAD_SIZE + ChunkSize
         /\ pc[r] \in {"reading", "responding"} =>
                /\ upload[r].received <= MAX_UPLOAD_SIZE
                /\ local[r].size_bytes = upload[r].received
                /\ upload_dir[local[r].file_path[1]] = upload[r].received
         /\ upload[r].received > MAX_UPLOAD_SIZE <=>
                (pc[r] = "responded" /\ resp[r].status_code = 413)
         /\ resp[r].status_code = 413 => local[r].file_path[1] \notin DOMAIN upload_dir

C29_Witness ==
    \E r, q \in Requests :
        /\ pc[r] = "responding"
        /\ upload[r].received = MAX_UPLOAD_SIZE
        /\ jobs[local[r].job_id[1]].file_size = format_file_size(MAX_UPLOAD_SIZE)
        /\ upload_dir[local[r].file_path[1]] = MAX_UPLOAD_SIZE
        /\ resp[q].status_code = 413
        /\ upload[q].received = MAX_UPLOAD_SIZE + 1

(* ------------------- failures of the environment ----------------------- *)

\* except Exception: raise HTTPException(status_code=500, ...)
ErrorCreatingJob == [status_code |-> 500, job |-> None]

\* await upload_file.read(...) raises (the client went away): the 'with'
\* block closes the file and leaves it where it is; create_job answers 500.
ReadRaises(r) ==
    /\ pc[r] = "reading"
    /\ ~upload[r].eof
    /\ resp' = [resp EXCEPT ![r] = ErrorCreatingJob]
    /\ pc' = [pc EXCEPT ![r] = "responded"]
    /\ UNCHANGED << upload, local, background_tasks, dispatch, dispatched, upload_dir, jobs,
                    worker_inbox, worker_queue, clock, results_dir, read, session >>

\* The upload is saved and db.commit() raises (the database is locked or
\* gone): no row is written, no task is added; create_job answers 500.
CommitRaises(r) ==
    /\ pc[r] = "reading"
    /\ upload' = [upload EXCEPT ![r].eof = TRUE]
    /\ resp' = [resp EXCEPT ![r] = ErrorCreatingJob]
    /\ pc' = [pc EXCEPT ![r] = "responded"]
    /\ UNCHANGED << local, background_tasks, dispatch, dispatched, upload_dir, jobs,
                    worker_inbox, worker_queue, clock, results_dir, read, session >>

\* mutant: the task is added between the commit and the refresh
RefreshRaisesAfterEnqueue(r) ==
    /\ pc[r] = "reading"
    /\ LET file_size == format_file_size(local[r].size_bytes)
           harmonization_type ==
               IF upload[r].harmonization_type \in {None, Some("")}
               THEN get_harmonization_type_from_filename(upload[r].filename)
               ELSE upload[r].harmonization_type[1]
           id == uuid4(r, 2)
           job == NewJob(id, local[r].file_path[1], local[r].file_type, file_size,
                         harmonization_type, utcnow)
       IN  /\ jobs' = db_add_commit(jobs, job)
           /\ local' = [local EXCEPT ![r].job_id = Some(id)]
           /\ background_tasks' = [background_tasks EXCEPT ![r] = add_task(@, id)]
    /\ upload' = [upload EXCEPT ![r].eof = TRUE]
    /\ resp' = [resp EXCEPT ![r] = ErrorCreatingJob]
    /\ pc' = [pc EXCEPT ![r] = "responded"]
    /\ UNCHANGED << dispatch, dispatched, upload_dir,
                    worker_inbox, worker_queue, clock, results_dir, read, session >>

\* The row is committed and db.refresh(job) raises: the row stays, QUEUED,
\* no task is added; create_job answers 500.
RefreshRaises(r) ==
    /\ pc[r] = "reading"
    /\ LET file_size == format_file_size(local[r].size_bytes)
           harmonization_type ==
               IF upload[r].harmonization_type \in {None, Some("")}
               THEN get_harmonization_type_from_filename(upload[r].filename)
               ELSE upload[r].harmonization_type[1]
           id == uuid4(r, 2)
           job == NewJob(id, local[r].file_path[1], local[r].file_type, file_size,
                         harmonization_type, utcnow)
       IN  /\ jobs' = db_add_commit(jobs, job)
           /\ local' = [local EXCEPT ![r].job_id = Some(id)]
    /\ upload' = [upload EXCEPT ![r].eof = TRUE]
    /\ resp' = [resp EXCEPT ![r] = ErrorCreatingJob]
    /\ pc' = [pc EXCEPT ![r] = "responded"]
    /\ UNCHANGED << background_tasks, dispatch, dispatched, upload_dir,
                    worker_inbox, worker_queue, clock, results_dir, read, session >>

\* The row of a job whose dispatch is waiting to start is removed from the
\* table by hand: the case the first lines of process_job_async provide for.
DeleteRow(r) ==
    /\ pc[r] = "responded"
    /\ background_tasks[r] # <<>>
    /\ dispatch[r].at = "none"
    /\ Head(background_tasks[r]) \in DOMAIN jobs
    /\ jobs' = [j \in (DOMAIN jobs) \ {Head(background_tasks[r])} |-> jobs[j]]
    /\ UNCHANGED << pc, upload, local, resp, background_tasks, dispatch, dispatched, upload_dir,
                    worker_inbox, worker_queue, clock, results_dir, read, session >>

\* File names of the uploads under failures: one that is admitted and one
\* that is refused.
FaultFileNames == { <<"a", ".", "C", "S", "V">>, <<"a", ".", "t", "x", "t">> }

FaultNext ==
    \/ \E r \in Requests, f \in FaultFileNames, h \in FormTypes : SaveUploadOpen(r, f, h)
    \/ \E r \in Requests, n \in 1..ChunkSize : SaveUploadRead(r, n)
    \/ \E r \in Requests : CreateJob(r)
    \/ \E r \in Requests : SendResponse(r)
    \/ \E r \in Requests : DispatchBegin(r)
    \/ \E r \in Requests, reply \in WorkerReplies : WorkerReceive(r, reply)
    \/ \E r \in Requests : DispatchReply(r)
    \/ \E r \in Requests, e \in TransportErrors : DispatchRaise(r, e)
    \/ \E j \in worker_queue, s \in {COMPLETED, FAILED} : WorkerReport(j, s)
    \/ \E r \in Requests : ReadRaises(r)
    \/ \E r \in Requests : CommitRaises(r)
    \/ \E r \in Requests : RefreshRaises(r)
    \/ \E r \in Requests : DeleteRow(r)

FaultSpec == Init /\ [][FaultNext]_vars

\* C28: a dispatch run for a job id that is not in the store ends at once:
\* the step that finds the job missing leaves the store, the worker's inbox
\* and the worker's queue as they are, and afterwards the id is still not in
\* the store and no process request for it has reached the worker.
C28_MissingJobAborts ==
    /\ [](\A r \in Requests :
            dispatch[r].outcome = "not_found" =>
                /\ dispatch[r].at = "returned"
                /\ dispatch[r].payload = None
                /\ dispatch[r].job_id \notin DOMAIN jobs
                /\ ~ReachedWorker(dispatch[r].job_id)
                /\ dispatch[r].job_id \notin worker_queue)
    /\ [][ \A r \in Requests :
             (dispatch[r].outcome # "not_found" /\ dispatch'[r].outcome = "not_found") =>
                 /\ jobs' = jobs
                 /\ worker_inbox' = worker_inbox
                 /\ worker_queue' = worker_queue ]_vars

C28_Witness ==
    \E r, q \in Requests :
        /\ dispatch[r].outcome = "not_found"
        /\ Occurrences(dispatched[r], dispatch[r].job_id) = 1
        /\ dispatch[q].at = "awaiting"
        /\ dispatch[q].job_id \in DOMAIN jobs

\* C30: a create request that fails answers 400 exactly when the file name
\* is refused, 413 exactly when the bytes read exceed MAX_UPLOAD_SIZE, and 500
\* for every other failure (a read of the stream, the commit or the refresh
\* raises); no failed request has a dispatch enqueued or started, and none
\* returns a job.
C30_FailureSurfaced ==
    \A r \in Requests :
        (pc[r] = "responded" /\ resp[r].status_code # CreatedStatusCode) =>
            /\ resp[r].status_code \in {400, 413, 500}
            /\ resp[r].status_code = 400 <=> ~validate_file_extension(upload[r].filename)
            /\ resp[r].status_code = 413 <=> upload[r].received > MAX_UPLOAD_SIZE
            /\ resp[r].status_code = 500 <=>
                   /\ validate_file_extension(upload[r].filename)
                   /\ upload[r].received <= MAX_UPLOAD_SIZE
            /\ resp[r].job = None
            /\ background_tasks[r] = <<>>
            /\ dispatched[r] = <<>>
            /\ dispatch[r] = NoDispatch

C30_Witness ==
    \E r, q \in Requests :
        /\ pc[r] = "responded" /\ resp[r].status_code = 500
        /\ local[r].job_id # None
        /\ jobs[local[r].job_id[1]].status = QUEUED
        /\ pc[q] = "responded" /\ resp[q].status_code \in {400, 413}

(* --------------------- extension and file type (C36) ------------------- *)

\* File names for the extension check: what stands before the last segment
\* (nothing, a stem, two stems, a stem that ends in an allowed extension, a
\* lone dot, a directory and a stem) joined to a last segment (allowed, allowed in upper or mixed
\* case, not allowed, empty, an allowed one with a letter more).
ExtStems ==
    { <<>>, <<"a", ".">>, <<"a", ".", "b", ".">>, <<"a", ".", "c", "s", "v", ".">>, <<".">>,
      <<"l", "a", "b", "/", "x", ".">> }
ExtSegments ==
    { <<"c", "s", "v">>, <<"C", "S", "V">>, <<"J", "s", "o", "N">>,
      <<"t", "x", "t">>, <<>>, <<"c", "s", "v", "x">> }
ExtFileNames == { stem \o seg : stem \in ExtStems, seg \in ExtSegments }

\* One create request served from its arrival to its response.
ExtNext ==
    \/ \E f \in ExtFileNames, h \in FormTypes : SaveUploadOpen(1, f, h)
    \/ \E n \in 1..ChunkSize : SaveUploadRead(1, n)
    \/ CreateJob(1)
    \/ SendResponse(1)

ExtSpec == Init /\ [][ExtNext]_vars

\* e is the text after the last '.' of name: a suffix without a '.', which
\* is the whole name or follows a '.'.
IsLastSegment(name, e) ==
    \E k \in 0..Len(name) :
        /\ e = SubSeq(name, k + 1, Len(name))
        /\ \A i \in (k + 1)..Len(name) : name[i] # "."
        /\ k = 0 \/ name[k] = "."

\* The lowercased text after the last '.' of name is an allowed extension.
AllowedByLastSegment(name) ==
    \E k \in 0..Len(name) :
        /\ IsLastSegment(name, SubSeq(name, k + 1, Len(name)))
        /\ Lower(SubSeq(name, k + 1, Len(name))) \in ALLOWED_EXTENSIONS

WorkerReportsOn(j) == j \in worker_queue /\ j \notin worker_queue'

\* C33: a job is created with output_file and completed_at unset and not
\* COMPLETED; only a step in which the worker reports on the job makes it
\* COMPLETED or changes its output_file or completed_at; and a job the worker
\* has not received, or has not yet reported on, is QUEUED, PROCESSING or
\* FAILED with output_file and completed_at unset.
C33_OnlyWorkerCompletes ==
    /\ [](\A j \in JobIds :
            (~ReachedWorker(j) \/ j \in worker_queue) =>
                /\ jobs[j].status \in {QUEUED, PROCESSING, FAILED}
                /\ jobs[j].output_file = None
                /\ jobs[j].completed_at = None)
    /\ [][ \A j \in DOMAIN jobs' :
             IF j \notin DOMAIN jobs
             THEN /\ jobs'[j].status # COMPLETED
                  /\ jobs'[j].output_file = None
                  /\ jobs'[j].completed_at = None
             ELSE (\/ jobs'[j].status = COMPLETED /\ jobs[j].status # COMPLETED
                   \/ jobs'[j].output_file # jobs[j].output_file
                   \/ jobs'[j].completed_at # jobs[j].completed_at)
                      => WorkerReportsOn(j) ]_vars

C33_Witness ==
    \E j, k \in JobIds :
        /\ ~ReachedWorker(j)
        /\ jobs[j].status = FAILED
        /\ jobs[j].completed_at = None
        /\ ReachedWorker(k)
        /\ k \notin worker_queue
        /\ jobs[k].status = FAILED
        /\ jobs[k].error_message = Some(WorkerErrorMessage("busy"))
        /\ jobs[k].output_file = None

(* ------------------------ orphan uploads (C32) ------------------------- *)

\* The jobs whose input_file is the file at path.
JobsOfFile(path) == { j \in JobIds : jobs[j].input_file = path }

\* The row of the job request r was answered with has been removed from
\* the table by hand.
RowRemoved(r) == resp[r].job # None /\ resp[r].job[1].id \notin JobIds

\* C32: once a create request has finished, with success or with any
\* failure, the file it opened in the upload directory, if it is still
\* there, is the input_file of exactly one job.
C32_NoOrphanUpload ==
    \A r \in Requests :
        pc[r] = "responded" =>
            \A p \in DOMAIN upload_dir :
                p.uuid = uuid4(r, 1) =>
                    Cardinality(JobsOfFile(p)) = 1 \/ RowRemoved(r)

(* ------------------------ session teardown (C34) ----------------------- *)

\* When the framework runs the 'finally' of get_db: once the handler has
\* returned and before the response is sent (FastAPI from 0.106), or after
\* the response and its background tasks (FastAPI before 0.106). The source
\* fixes no version of the framework.
TeardownOrders == { "before_response", "after_background" }

\* get_db resumes after its yield: db.close()
Teardown(r, order) ==
    /\ session[r].handle # None
    /\ ~session[r].closed
    /\ order \in TeardownOrders
    /\ order = "before_response" => pc[r] = "responding"
    /\ order = "after_background" =>
           /\ pc[r] = "responded"
           /\ background_tasks[r] = <<>>
           /\ dispatch[r].at # "awaiting"
    /\ session' = [session EXCEPT ![r].closed = TRUE]
    /\ UNCHANGED << pc, upload, local, resp, background_tasks, dispatch, dispatched, upload_dir,
                    jobs, worker_inbox, worker_queue, clock, results_dir, read >>

\* The file name of the uploads under teardown: an admitted one.
TeardownFileNames == { <<"a", ".", "C", "S", "V">> }

\* The requests and their dispatch runs with the teardown of their sessions;
\* the worker answers and its later report, which no session of the API
\* takes part in, is left out.
TeardownNext ==
    \/ \E r \in Requests, f \in TeardownFileNames, h \in FormTypes : SaveUploadOpen(r, f, h)
    \/ \E r \in Requests, n \in 1..ChunkSize : SaveUploadRead(r, n)
    \/ \E r \in Requests : CreateJob(r)
    \/ \E r \in Requests : SendResponse(r)
    \/ \E r \in Requests : DispatchBegin(r)
    \/ \E r \in Requests, reply \in WorkerReplies : WorkerReceive(r, reply)
    \/ \E r \in Requests : DispatchReply(r)
    \/ \E r \in Requests, e \in TransportErrors : DispatchRaise(r, e)
    \/ \E r \in Requests, order \in TeardownOrders : Teardown(r, order)

TeardownSpec == Init /\ [][TeardownNext]_vars

\* C34: a dispatch run that has queried and committed and is waiting for
\* the worker's reply, after which it may commit again, works on the session
\* of the request that created its job, and that session is not closed.
C34_DispatchOnOpenSession ==
    \A r \in Requests :
        dispatch[r].at = "awaiting" =>
            /\ dispatch[r].db = session[r].handle
            /\ ~session[r].closed

(* ------------------------ time passes (C35) ---------------------------- *)

\* Time passes: datetime.utcnow returns a later value from now on.
Tick ==
    /\ clock < MaxClock
    /\ clock' = clock + 1
    /\ UNCHANGED << pc, upload, local, resp, background_tasks, dispatch, dispatched, upload_dir,
                    jobs, worker_inbox, worker_queue, results_dir, read, session >>

\* One create request, its dispatch, the worker's answer and report, and
\* reads of its job, while time passes.
TimedNext ==
    \/ \E f \in TeardownFileNames, h \in FormTypes : SaveUploadOpen(1, f, h)
    \/ \E n \in 1..ChunkSize : SaveUploadRead(1, n)
    \/ CreateJob(1)
    \/ SendResponse(1)
    \/ DispatchBegin(1)
    \/ \E reply \in WorkerReplies : WorkerReceive(1, reply)
    \/ DispatchReply(1)
    \/ \E e \in TransportErrors : DispatchRaise(1, e)
    \/ \E j \in worker_queue, s \in {COMPLETED, FAILED} : WorkerReport(j, s)
    \/ \E j \in JobIds : GetJob(j)
    \/ \E j \in JobIds : GetJobStatus(j)
    \/ Tick

TimedSpec == Init /\ [][TimedNext]_vars

\* C35: a job's updated_at is never earlier than its created_at and never
\* later than now; no step lowers it; every step that changes the job's row
\* sets it to the time of the step; a step that serves a read changes no row.
C35_UpdatedAtRefreshed ==
    /\ [](\A j \in JobIds :
            /\ jobs[j].created_at <= jobs[j].updated_at
            /\ jobs[j].updated_at <= clock)
    /\ [][ \A j \in DOMAIN jobs :
             /\ j \in DOMAIN jobs'
             /\ jobs'[j].updated_at >= jobs[j].updated_at
             /\ jobs'[j] # jobs[j] => jobs'[j].updated_at = clock
             /\ read' # read => jobs'[j] = jobs[j] ]_vars

C35_Witness ==
    \E j \in JobIds :
        /\ jobs[j].status = FAILED
        /\ jobs[j].error_message = Some(SendErrorMessage(""))
        /\ jobs[j].created_at = 0
        /\ jobs[j].updated_at = 2
        /\ read.op = "get_job"
        /\ read.response.body.updated_at = 1

(* ------------------------- termination (C31) --------------------------- *)

\* Two create requests: enough for one dispatch run to be in progress
\* while the other request is served or dispatched.
LiveRequests == {1, 2}

\* The lifecycle of admitted uploads.
LiveNext ==
    \/ \E r \in LiveRequests, f \in TeardownFileNames, h \in FormTypes : SaveUploadOpen(r, f, h)
    \/ \E r \in LiveRequests, n \in 1..ChunkSize : SaveUploadRead(r, n)
    \/ \E r \in LiveRequests : CreateJob(r)
    \/ \E r \in LiveRequests : SendResponse(r)
    \/ \E r \in LiveRequests : DispatchBegin(r)
    \/ \E r \in LiveRequests, reply \in WorkerReplies : WorkerReceive(r, reply)
    \/ \E r \in LiveRequests : DispatchReply(r)
    \/ \E r \in LiveRequests, e \in TransportErrors : DispatchRaise(r, e)
    \/ \E j \in worker_queue, s \in {COMPLETED, FAILED} : WorkerReport(j, s)

\* The awaited post ends: with the worker's reply or, after the timeout at
\* the latest, with an exception.
PostEnds(r) == DispatchReply(r) \/ \E e \in TransportErrors : DispatchRaise(r, e)

\* What the server's event loop does without waiting for anything outside:
\* a handler that has returned is answered, a background task that is due
\* is started, an awaited post ends. Clients and the worker owe nothing.
LiveSpec ==
    /\ Init
    /\ [][LiveNext]_vars
    /\ \A r \in LiveRequests :
         /\ WF_vars(SendResponse(r))
         /\ WF_vars(DispatchBegin(r))
         /\ WF_vars(PostEnds(r))

\* The job of request r (the second uuid drawn for it).
JobIdOf(r) == uuid4(r, 2)

\* C31: a dispatch run that awaits the worker returns; it starts by writing
\* PROCESSING, returns after a 202 reply without another write and after any
\* other reply or an exception with FAILED as its last write; and a job
\* with a dispatch scheduled leaves QUEUED.
C31_DispatchTerminates ==
    /\ \A r \in LiveRequests :
         /\ (dispatch[r].at = "awaiting") ~> (dispatch[r].at = "returned")
         /\ (background_tasks[r] # <<>>) ~>
                (JobIdOf(r) \in JobIds /\ jobs[JobIdOf(r)].status # QUEUED)
    /\ [][ \A r \in Requests :
             /\ (dispatch[r].at # "awaiting" /\ dispatch'[r].at = "awaiting") =>
                    jobs'[dispatch'[r].job_id].status = PROCESSING
             /\ (dispatch[r].at = "awaiting" /\ dispatch'[r].at = "returned") =>
                    IF dispatch[r].reply # None /\ dispatch[r].reply[1].status_code = 202
                       /\ dispatch'[r].outcome # "exception"
                    THEN /\ dispatch'[r].outcome = "accepted"
                         /\ jobs' = jobs
                    ELSE /\ dispatch'[r].outcome \in {"worker_error", "exception"}
                         /\ jobs'[dispatch[r].job_id].status = FAILED ]_vars

C31_Witness ==
    \E r, q \in Requests :
        /\ dispatch[r].at = "returned" /\ dispatch[r].outcome = "accepted"
        /\ jobs[dispatch[r].job_id].status = PROCESSING
        /\ dispatch[q].at = "returned" /\ dispatch[q].outcome = "exception"
        /\ jobs[dispatch[q].job_id].status = FAILED

====
